---- MODULE Spec2Model ----
(***************************************************************************)
(* Model of epsilon.py, the SVN-to-Discord webhook: the startup seeding of *)
(* the revision counters and the poll / fetch / send / sleep loop of       *)
(* main(), with the repository and the webhook as environment.             *)
(***************************************************************************)
EXTENDS Integers, Sequences, FiniteSets, TLC

\* ---- bounds of the model ----
\* highest revision the repository reaches
MaxHead == 4
\* highest HEAD the repository can have when the program starts
MaxStartHead == 2
\* number of finished cycles kept in the history window
HistLen == 3
\* a streak of failed cycles is counted up to this length
MaxStreak == 4

\* ---- program constants ----
\* line 137: delay_increment + 15
DelayStep == 15
\* line 137: min(..., 120)
MaxDelay == 120
\* line 34: default=120 of --poll_time
DefaultPollTime == 120

VARIABLES
    head,              \* repository: the HEAD revision (commit_revision of info())
    initial_revision,  \* args.initial_revision: {} is None, {R} is the integer R
    poll_time,         \* args.poll_time
    pc,                \* position of main()
    c_rev,             \* line 81 / 99
    p_rev,             \* line 82 / 140
    delay_increment,   \* line 96 / 137 / 139
    all_logs,          \* line 104: the commits of the batch not yet iterated
    fetched,           \* history: the range (from, to) of the last log fetch
    sent,              \* history: revisions handed to hook.send, in order
    cycle_sent,        \* history: revisions handed to hook.send in this cycle
    observed,          \* history: {} or the latest HEAD returned by info() inside the loop
    full_heads,        \* history: the latest HEAD (startup or polled) with nothing left to deliver
    seed,              \* history: value of p_rev after line 82
    startup_head,      \* history: HEAD returned by info() at line 80
    last_event,        \* history: outcome of the last I/O call
    cycle,             \* history: this cycle's record (p_rev and delay before, outcome)
    sleeps_in_cycle,   \* history: number of time.sleep calls since the cycle began
    streak,            \* history: consecutive cycles that ended in the except branch
    hist,              \* history: the last HistLen finished cycles
    raced,             \* history: the HEAD had moved past c_rev when the log was asked for
    exit_code,         \* {} while main() runs, else the exit status of the process
    log,               \* line 105: the commit being formatted
    commit_header,     \* line 109
    commit_separator,  \* line 113
    commit_changes,    \* lines 114-118
    commit_message,    \* lines 120-124
    new_commit_string  \* line 126

vars == << head, initial_revision, poll_time, pc, c_rev, p_rev, delay_increment,
           all_logs, fetched, sent, cycle_sent, observed, full_heads, seed,
           startup_head, last_event, cycle, sleeps_in_cycle, streak, hist,
           raced, exit_code, log, commit_header, commit_separator, commit_changes,
           commit_message, new_commit_string >>

\* the variables of the formatting of one commit (lines 106-127)
fmtVars == << log, commit_header, commit_separator, commit_changes,
             commit_message, new_commit_string >>

envVars == << initial_revision, poll_time >>

\* revision numbers of the repository (lines 42, 99)
Revisions == 0..MaxHead

\* values of --poll_time (type=int) the runs are started with
PollTimes == {DefaultPollTime, DefaultPollTime \div 2}

\* positions inside `while True` (lines 97-142)
LoopPcs == {"poll", "fetch", "deliver", "sleep"}

\* line 137: min
Min(a, b) == IF a <= b THEN a ELSE b

\* Python truthiness of args.initial_revision (None and 0 are falsy)
Truthy(opt) == opt # {} /\ opt # {0}

\* mutant of SeedRevision: without an initial revision the run starts from 0
SeedRevisionFromZero(opt, h) == IF Truthy(opt) THEN CHOOSE r \in opt : TRUE ELSE 0

\* line 81: args.initial_revision if args.initial_revision else HEAD
SeedRevision(opt, h) == IF Truthy(opt) THEN CHOOSE r \in opt : TRUE ELSE h

\* mutant of NewCommits: the comparison is >= instead of >
NewCommitsOrEqual(c, p) == c >= p

\* line 102: if c_rev > p_rev
NewCommits(c, p) == c > p

\* mutant of LogRange: the range ends at the HEAD of the moment of the fetch
LogRangeToHead(p, c) == [i \in 1..(head - p) |-> p + i]

\* mutant of LogRange: the range starts at p_rev instead of p_rev + 1
LogRangeFromPrev(p, c) == [i \in 1..(c - p + 1) |-> p + i - 1]

\* line 104: log_default(revision_from=p_rev + 1, revision_to=c_rev), oldest first
LogRange(p, c) == [i \in 1..(c - p) |-> p + i]

\* mutant of BatchDone: the try body is left although commits of the batch remain
BatchDoneEarly(rest) == TRUE

\* lines 105, 133: the for loop has no commit left, the try body is over
BatchDone(rest) == rest = << >>

\* mutant of onFailure: the cap is applied one step too late
onFailureLateCap(d) == IF d >= MaxDelay THEN d + DelayStep ELSE Min(d + DelayStep, MaxDelay)

\* line 137: min(delay_increment + 15, 120)
onFailure(d) == Min(d + DelayStep, MaxDelay)

\* mutant of SleepDuration: the sleep ignores the backoff
SleepDurationNoBackoff(t, d) == t

\* line 142: args.poll_time + delay_increment
SleepDuration(t, d) == t + d

\* the record of a cycle that has not begun (line 97)
NoCycle == [p_before |-> 0, d_before |-> 0, outcome |-> "none"]

\* the outcomes of a cycle that ran the else branch (lines 138-140)
OkOutcomes == {"empty", "delivered"}

\* the outcomes of a cycle that ran the except branch (lines 134-137)
FailOutcomes == {"head_fail", "log_fail"}

\* line 142: one more finished cycle; the window keeps the last HistLen
Push(h, e) == IF Len(h) < HistLen THEN Append(h, e) ELSE Append(Tail(h), e)

\* no commit is being formatted
NoLog == [revision |-> 0, author |-> << >>, cdate |-> << >>, msg |-> << >>,
          changelist |-> << >>]

Init ==
    /\ head \in 0..MaxStartHead
    /\ initial_revision \in {{}} \cup {{r} : r \in Revisions}
    /\ poll_time \in PollTimes
    /\ pc = "startup"
    /\ c_rev = 0
    /\ p_rev = 0
    /\ delay_increment = 0
    /\ all_logs = << >>
    /\ fetched = << >>
    /\ sent = << >>
    /\ cycle_sent = << >>
    /\ observed = {}
    /\ full_heads = {}
    /\ seed = 0
    /\ startup_head = 0
    /\ last_event = "none"
    /\ cycle = NoCycle
    /\ sleeps_in_cycle = 0
    /\ streak = 0
    /\ hist = << >>
    /\ raced = FALSE
    /\ exit_code = {}
    /\ log = NoLog
    /\ commit_header = << >>
    /\ commit_separator = << >>
    /\ commit_changes = << >>
    /\ commit_message = << >>
    /\ new_commit_string = << >>

\* repository: somebody commits a new revision
Commit ==
    /\ head < MaxHead
    /\ pc \in LoopPcs
    /\ head' = head + 1
    /\ UNCHANGED << envVars, pc, c_rev, p_rev, delay_increment, all_logs, fetched,
                    sent, cycle_sent, observed, full_heads, seed, startup_head,
                    last_event, cycle, sleeps_in_cycle, streak, hist >>
    /\ UNCHANGED << raced, exit_code, fmtVars >>

\* lines 80-83: svn_client.info() answers; c_rev and p_rev are seeded
StartupInfoOk ==
    /\ pc = "startup"
    /\ c_rev' = SeedRevision(initial_revision, head)
    /\ p_rev' = c_rev'
    /\ seed' = c_rev'
    /\ startup_head' = head
    /\ full_heads' = {head}
    /\ pc' = "hook"
    /\ last_event' = "info_ok"
    /\ UNCHANGED << head, envVars, delay_increment, all_logs, fetched, sent,
                    cycle_sent, observed, cycle, sleeps_in_cycle, streak, hist >>
    /\ UNCHANGED << raced, exit_code, fmtVars >>

\* line 80: svn_client.info() raises SvnException outside any try: main() dies
\* with a traceback, and the interpreter exits with status 1
StartupInfoFail ==
    /\ pc = "startup"
    /\ pc' = "crashed"
    /\ last_event' = "info_fail"
    /\ UNCHANGED << head, envVars, c_rev, p_rev, delay_increment, all_logs, fetched,
                    sent, cycle_sent, observed, full_heads, seed, startup_head,
                    cycle, sleeps_in_cycle, streak, hist >>
    /\ exit_code' = {1}
    /\ UNCHANGED << raced, fmtVars >>

\* lines 86-96: the webhook object is built and modified, the loop is entered
ConnectHook ==
    /\ pc = "hook"
    /\ delay_increment' = 0
    /\ pc' = "poll"
    /\ last_event' = "hook_ok"
    /\ UNCHANGED << head, envVars, c_rev, p_rev, all_logs, fetched, sent,
                    cycle_sent, observed, full_heads, seed, startup_head,
                    cycle, sleeps_in_cycle, streak, hist >>
    /\ UNCHANGED << raced, exit_code, fmtVars >>

\* lines 86, 92: Webhook(url) raises on a malformed URL, or hook.modify (the
\* first request to the webhook) raises; nothing catches it: main() dies with a
\* traceback, and the interpreter exits with status 1. A Webhook object is always
\* truthy, so `return 2` (lines 87-89) is never reached, and neither is
\* `return 1` (lines 74-76) for the RemoteClient object.
ConnectHookFail ==
    /\ pc = "hook"
    /\ pc' = "crashed"
    /\ last_event' = "hook_fail"
    /\ exit_code' = {1}
    /\ UNCHANGED << head, envVars, c_rev, p_rev, delay_increment, all_logs, fetched,
                    sent, cycle_sent, observed, full_heads, seed, startup_head,
                    cycle, sleeps_in_cycle, streak, hist, raced, fmtVars >>

\* mutant of ElseBranch: line 140 is missing
ElseBranchNoAdvance(c) ==
    /\ delay_increment' = 0
    /\ pc' = "sleep"
    /\ UNCHANGED << p_rev, full_heads >>

\* lines 138-140: the else branch of the try
ElseBranch(c) ==
    /\ delay_increment' = 0
    /\ p_rev' = c
    /\ full_heads' = {c}
    /\ pc' = "sleep"

\* mutant of ExceptSvn: the handler also takes over the polled HEAD
ExceptSvnAdvance ==
    /\ delay_increment' = onFailure(delay_increment)
    /\ pc' = "sleep"
    /\ p_rev' = c_rev
    /\ UNCHANGED full_heads

\* lines 134-137: except svn.exception.SvnException
ExceptSvn ==
    /\ delay_increment' = onFailure(delay_increment)
    /\ pc' = "sleep"
    /\ UNCHANGED << p_rev, full_heads >>

\* lines 99-102: info() answers with the HEAD; with nothing new the try body ends
PollHeadOk ==
    /\ pc = "poll"
    /\ c_rev' = head
    /\ observed' = {head}
    /\ cycle_sent' = << >>
    /\ sleeps_in_cycle' = 0
    /\ last_event' = "head_ok"
    /\ IF NewCommits(c_rev', p_rev)
         THEN /\ pc' = "fetch"
              /\ cycle' = [p_before |-> p_rev, d_before |-> delay_increment,
                           outcome |-> "none"]
              /\ UNCHANGED << p_rev, delay_increment, full_heads >>
         ELSE /\ ElseBranch(head)
              /\ cycle' = [p_before |-> p_rev, d_before |-> delay_increment,
                           outcome |-> "empty"]
    /\ UNCHANGED << head, envVars, all_logs, fetched, sent, seed, startup_head, streak, hist >>
    /\ UNCHANGED << raced, exit_code, fmtVars >>

\* line 99: info() raises SvnException
PollHeadFail ==
    /\ pc = "poll"
    /\ ExceptSvn
    /\ cycle_sent' = << >>
    /\ sleeps_in_cycle' = 0
    /\ last_event' = "head_fail"
    /\ cycle' = [p_before |-> p_rev, d_before |-> delay_increment,
                 outcome |-> "head_fail"]
    /\ UNCHANGED << head, envVars, c_rev, all_logs, fetched, sent, observed,
                    seed, startup_head, streak, hist >>
    /\ UNCHANGED << raced, exit_code, fmtVars >>

\* line 104: the log of [p_rev + 1, c_rev] arrives; a log without entries ends
\* the for loop at once
FetchLogOk ==
    /\ pc = "fetch"
    /\ all_logs' = LogRange(p_rev, c_rev)
    /\ fetched' = << p_rev + 1, c_rev >>
    /\ last_event' = "log_ok"
    /\ IF BatchDone(all_logs')
         THEN /\ ElseBranch(c_rev)
              /\ cycle' = [cycle EXCEPT !.outcome = "delivered"]
         ELSE /\ pc' = "deliver"
              /\ UNCHANGED << p_rev, delay_increment, full_heads, cycle >>
    /\ UNCHANGED << head, envVars, c_rev, sent, cycle_sent, observed, seed,
                    startup_head, sleeps_in_cycle, streak, hist >>
    /\ raced' = (head > c_rev)
    /\ UNCHANGED << exit_code, fmtVars >>

\* line 104: the log query raises SvnException
FetchLogFail ==
    /\ pc = "fetch"
    /\ ExceptSvn
    /\ last_event' = "log_fail"
    /\ cycle' = [cycle EXCEPT !.outcome = "log_fail"]
    /\ UNCHANGED << head, envVars, c_rev, all_logs, fetched, sent, cycle_sent,
                    observed, seed, startup_head, sleeps_in_cycle, streak, hist >>
    /\ raced' = (head > c_rev)
    /\ UNCHANGED << exit_code, fmtVars >>

\* lines 105-133: one commit is formatted and hook.send returns; after the last
\* commit of the batch the try body ends and the else branch runs
SendOk ==
    /\ pc = "deliver"
    /\ all_logs # << >>
    /\ sent' = Append(sent, Head(all_logs))
    /\ cycle_sent' = Append(cycle_sent, Head(all_logs))
    /\ all_logs' = Tail(all_logs)
    /\ last_event' = "send_ok"
    /\ IF BatchDone(all_logs')
         THEN /\ ElseBranch(c_rev)
              /\ cycle' = [cycle EXCEPT !.outcome = "delivered"]
         ELSE UNCHANGED << pc, p_rev, delay_increment, full_heads, cycle >>
    /\ UNCHANGED << head, envVars, c_rev, fetched, observed, seed, startup_head,
                    sleeps_in_cycle, streak, hist >>
    /\ UNCHANGED << raced, exit_code, fmtVars >>

\* line 130: hook.send raises; the exception is no SvnException and no
\* KeyboardInterrupt, so neither handler (lines 134, 143) takes it: main() dies
\* with a traceback, and the interpreter exits with status 1
SendFail ==
    /\ pc = "deliver"
    /\ all_logs # << >>
    /\ pc' = "crashed"
    /\ last_event' = "send_fail"
    /\ cycle' = [cycle EXCEPT !.outcome = "send_fail"]
    /\ UNCHANGED << head, envVars, c_rev, p_rev, delay_increment, all_logs, fetched,
                    sent, cycle_sent, observed, full_heads, seed, startup_head,
                    sleeps_in_cycle, streak, hist >>
    /\ exit_code' = {1}
    /\ UNCHANGED << raced, fmtVars >>

\* line 142: time.sleep(args.poll_time + delay_increment) returns; the cycle is over
Sleep ==
    /\ pc = "sleep"
    /\ sleeps_in_cycle' = sleeps_in_cycle + 1
    /\ hist' = Push(hist, [ok |-> cycle.outcome \in OkOutcomes,
                           slept |-> SleepDuration(poll_time, delay_increment)])
    /\ streak' = IF cycle.outcome \in FailOutcomes THEN Min(streak + 1, MaxStreak) ELSE 0
    /\ cycle' = NoCycle
    /\ cycle_sent' = << >>
    /\ all_logs' = << >>
    /\ fetched' = << >>
    /\ pc' = "poll"
    /\ last_event' = "slept"
    /\ UNCHANGED << head, envVars, c_rev, p_rev, delay_increment, sent, observed,
                    full_heads, seed, startup_head >>
    /\ raced' = FALSE
    /\ UNCHANGED << exit_code, fmtVars >>

\* mutant of Interrupt: the interrupt is swallowed and the loop polls again
InterruptSwallowed ==
    /\ pc \in LoopPcs
    /\ pc' = "poll"
    /\ last_event' = "interrupt"
    /\ UNCHANGED << head, envVars, c_rev, p_rev, delay_increment, all_logs, fetched,
                    sent, cycle_sent, observed, full_heads, seed, startup_head,
                    cycle, sleeps_in_cycle, streak, hist, raced, exit_code, fmtVars >>

\* lines 143-147: KeyboardInterrupt inside the outer try: shut down, return 0
Interrupt ==
    /\ pc \in LoopPcs
    /\ pc' = "shutdown"
    /\ last_event' = "interrupt"
    /\ UNCHANGED << head, envVars, c_rev, p_rev, delay_increment, all_logs, fetched,
                    sent, cycle_sent, observed, full_heads, seed, startup_head,
                    cycle, sleeps_in_cycle, streak, hist >>
    /\ exit_code' = {0}
    /\ UNCHANGED << raced, fmtVars >>

Next ==
    \/ Commit
    \/ StartupInfoOk
    \/ StartupInfoFail
    \/ ConnectHook
    \/ ConnectHookFail
    \/ PollHeadOk
    \/ PollHeadFail
    \/ FetchLogOk
    \/ FetchLogFail
    \/ SendOk
    \/ SendFail
    \/ Sleep
    \/ Interrupt

Spec == Init /\ [][Next]_vars

\* The single control flow always goes on (the sleep returns), and the calls to
\* the repository and to the webhook do not fail forever.
FairSpec ==
    /\ Spec
    /\ WF_vars(StartupInfoOk)
    /\ WF_vars(ConnectHook)
    /\ WF_vars(Sleep)
    /\ SF_vars(PollHeadOk)
    /\ SF_vars(FetchLogOk)
    /\ SF_vars(SendOk)

\* ---- the formatting of one commit (lines 19-22, 105-127) ----
\* A string is the sequence of its characters.

\* bounds of the formatter's inputs
\* longest commit message, in characters
MaxMsgLen == 3
\* longest changed-path list
MaxPaths == 2

\* the newline character
NL == "\n"

\* str(int) of str.format, for n >= 0
Digits == << "0", "1", "2", "3", "4", "5", "6", "7", "8", "9" >>

RECURSIVE Dec(_)
Dec(n) == IF n < 10 THEN << Digits[n + 1] >>
          ELSE Dec(n \div 10) \o << Digits[(n % 10) + 1] >>

\* str.count of one character
Count(str, ch) == Cardinality({i \in DOMAIN str : str[i] = ch})

\* str.split of one character: the pieces between the occurrences, so a string
\* that ends with the character has a last piece that is empty
RECURSIVE Split(_, _)
Split(str, ch) ==
    IF \A i \in DOMAIN str : str[i] # ch
      THEN << str >>
      ELSE LET i == CHOOSE k \in DOMAIN str :
                        str[k] = ch /\ \A j \in 1..(k - 1) : str[j] # ch
           IN  << SubSeq(str, 1, i - 1) >> \o Split(SubSeq(str, i + 1, Len(str)), ch)

\* ch * n
Repeat(ch, n) == [i \in 1..n |-> ch]

\* lines 20-21: " | " of the header and mode line templates
Bar == << " ", "|", " " >>

\* the backquote character, by name
BQ == "backquote"

\* line 22: the fence of commit_template, three backquotes
Fence == << BQ, BQ, BQ >>

\* line 22: "Changed paths:"
ChangedPathsLabel == << "C", "h", "a", "n", "g", "e", "d", " ", "p", "a", "t", "h", "s", ":" >>

\* line 22: "Commit message:"
CommitMessageLabel == << "C", "o", "m", "m", "i", "t", " ", "m", "e", "s", "s", "a", "g", "e", ":" >>

\* line 108: "line" / "lines"
LineWord == << "l", "i", "n", "e" >>

LinesWord == << "l", "i", "n", "e", "s" >>

\* mutant of LineCount: a newline at the end of the message is not counted
LineCountStripped(msg) ==
    IF msg # << >> /\ msg[Len(msg)] = NL THEN Count(msg, NL) ELSE Count(msg, NL) + 1

\* line 107: log.msg.count('\n') + 1
LineCount(msg) == Count(msg, NL) + 1

\* line 108: "line" if commit_linecount == 1 else "lines"
LineStr(n) == IF n = 1 THEN LineWord ELSE LinesWord

\* lines 20, 109-111: commit_header_template.format(...); cdate is the text
\* strftime (line 106) made of log.date
CommitHeader(l) ==
    << "r" >> \o Dec(l.revision) \o Bar \o l.author \o Bar \o l.cdate \o Bar
        \o Dec(LineCount(l.msg)) \o << " " >> \o LineStr(LineCount(l.msg))

\* line 113: "-" * len(commit_header)
CommitSeparator(header) == Repeat("-", Len(header))

\* lines 21, 116: commit_modeline_template.format(mode=c[0], filepath=c[1])
ModeLine(c) == c[1] \o Bar \o c[2]

\* lines 114-117: every change's mode line followed by a newline
RECURSIVE ChangesLoop(_)
ChangesLoop(cl) ==
    IF cl = << >> THEN << >> ELSE ModeLine(Head(cl)) \o << NL >> \o ChangesLoop(Tail(cl))

\* mutant of DropLast: two characters are cut off
DropLastTwo(str) == SubSeq(str, 1, Len(str) - 2)

\* line 118: commit_changes[0:-1]
DropLast(str) == SubSeq(str, 1, Len(str) - 1)

\* lines 120-124: every piece of the split message, 4 spaces before it and a
\* newline after it
RECURSIVE MessageLoop(_)
MessageLoop(pieces) ==
    IF pieces = << >> THEN << >>
    ELSE Repeat(" ", 4) \o Head(pieces) \o << NL >> \o MessageLoop(Tail(pieces))

\* lines 22, 126-127: commit_template.format(...)
CommitTemplate(header, separator, changes, message) ==
    Fence \o << NL >> \o header \o << NL >> \o separator \o << NL >>
        \o ChangedPathsLabel \o << NL >> \o changes \o << NL >> \o separator \o << NL >>
        \o CommitMessageLabel \o << NL >> \o message \o << NL >> \o Fence

\* the characters of the commit messages tried
MsgChars == {"a", NL}

\* the sequences over S of length at most n
SeqsUpTo(S, n) == UNION {[1..k -> S] : k \in 0..n}

\* the changes tried: (mode, path) as svn reports them
Changes == { << << "M" >>, << "/", "a" >> >>, << << "A" >>, << "/", "b", "c" >> >> }

\* the commits tried
Logs == [revision : {7, 12},
         author : { << "j", "o" >> },
         cdate : { << "2", "0", "2", "1", "-", "0", "3", "-", "0", "4", " ", "0", "5", ":", "0", "6",
       ":", "0", "7", " ", "+", "0", "1", "0", "0", " ", "(", "T", "h", "u", ",",
       " ", "0", "4", " ", "M", "a", "r", " ", "2", "0", "2", "1", ")" >> },
         msg : SeqsUpTo(MsgChars, MaxMsgLen),
         changelist : SeqsUpTo(Changes, MaxPaths)]

\* the loop of main() is not running: one commit is formatted on its own
FormatInit ==
    /\ head = 0
    /\ initial_revision = {}
    /\ poll_time = DefaultPollTime
    /\ pc = "fmt_header"
    /\ c_rev = 0
    /\ p_rev = 0
    /\ delay_increment = 0
    /\ all_logs = << >>
    /\ fetched = << >>
    /\ sent = << >>
    /\ cycle_sent = << >>
    /\ observed = {}
    /\ full_heads = {}
    /\ seed = 0
    /\ startup_head = 0
    /\ last_event = "none"
    /\ cycle = NoCycle
    /\ sleeps_in_cycle = 0
    /\ streak = 0
    /\ hist = << >>
    /\ raced = FALSE
    /\ exit_code = {}
    /\ log \in Logs
    /\ commit_header = << >>
    /\ commit_separator = << >>
    /\ commit_changes = << >>
    /\ commit_message = << >>
    /\ new_commit_string = << >>

\* the variables of the loop of main()
loopVars == << head, initial_revision, poll_time, c_rev, p_rev, delay_increment,
              all_logs, fetched, sent, cycle_sent, observed, full_heads, seed,
              startup_head, last_event, cycle, sleeps_in_cycle, streak, hist,
              raced, exit_code >>

\* lines 106-113: the header and the separator
FormatHeader ==
    /\ pc = "fmt_header"
    /\ commit_header' = CommitHeader(log)
    /\ commit_separator' = CommitSeparator(commit_header')
    /\ pc' = "fmt_changes"
    /\ UNCHANGED << loopVars, log, commit_changes, commit_message, new_commit_string >>

\* lines 114-118: the changed paths
FormatChanges ==
    /\ pc = "fmt_changes"
    /\ commit_changes' = DropLast(ChangesLoop(log.changelist))
    /\ pc' = "fmt_message"
    /\ UNCHANGED << loopVars, log, commit_header, commit_separator, commit_message,
                    new_commit_string >>

\* lines 120-124: the commit message
FormatMessage ==
    /\ pc = "fmt_message"
    /\ commit_message' = MessageLoop(Split(log.msg, NL))
    /\ pc' = "fmt_template"
    /\ UNCHANGED << loopVars, log, commit_header, commit_separator, commit_changes,
                    new_commit_string >>

\* lines 126-127: the block handed to hook.send
FormatCommit ==
    /\ pc = "fmt_template"
    /\ new_commit_string' = CommitTemplate(commit_header, commit_separator,
                                           commit_changes, commit_message)
    /\ pc' = "fmt_done"
    /\ UNCHANGED << loopVars, log, commit_header, commit_separator, commit_changes,
                    commit_message >>

FormatNext ==
    \/ FormatHeader
    \/ FormatChanges
    \/ FormatMessage
    \/ FormatCommit

FormatSpec == FormatInit /\ [][FormatNext]_vars

\* ---- helpers of the properties ----

Last(q) == q[Len(q)]

Range(q) == {q[i] : i \in DOMAIN q}

StrictlyIncreasing(q) == \A i, j \in DOMAIN q : i < j => q[i] < q[j]

\* the step is the except branch of a cycle (a repository contact failure)
ContactFailureStep ==
    /\ cycle'.outcome \in FailOutcomes
    /\ cycle.outcome \notin FailOutcomes

\* the step is the else branch of a cycle (the cycle succeeded)
SuccessStep ==
    /\ cycle'.outcome \in OkOutcomes
    /\ cycle.outcome \notin OkOutcomes

\* C1: when hook.send fails on a commit of the batch, the loop recovers: it goes
\* to Sleeping with lastConfirmedRevision as before the cycle and the backoff
\* increased by onFailure, and the run goes on.
C1_DeliveryFailureRecovered ==
    last_event = "send_fail" =>
        /\ pc = "sleep"
        /\ p_rev = cycle.p_before
        /\ delay_increment = Min(cycle.d_before + DelayStep, MaxDelay)

\* C2: inside the loop lastConfirmedRevision never decreases, and a new value is
\* the most recently observed HEAD whose batch was fully delivered.
C2_ConfirmedNonDecreasing ==
    [][(pc \in LoopPcs /\ p_rev' # p_rev) =>
          (p_rev' > p_rev /\ p_rev' \in full_heads')]_vars

\* C3: lastConfirmedRevision advances batch-atomically: when it moves from a to
\* b > a, every revision of [a+1, b] was handed to the webhook in this cycle,
\* and while a fetched range is open it is either below the range or at its
\* end with the whole range sent.
C3_BatchAtomicAdvance ==
    /\ [][(pc \in LoopPcs /\ p_rev' > p_rev) =>
            /\ fetched' = << p_rev + 1, p_rev' >>
            /\ \A r \in (p_rev + 1)..p_rev' : r \in Range(cycle_sent')]_vars
    /\ [](fetched # << >> =>
            \/ p_rev = fetched[1] - 1
            \/ /\ p_rev = fetched[2]
               /\ \A r \in fetched[1]..fetched[2] : r \in Range(cycle_sent))

C3_Witness ==
    /\ pc = "sleep"
    /\ cycle.outcome = "delivered"
    /\ Len(cycle_sent) >= 2
    /\ p_rev = Last(cycle_sent)
    /\ p_rev > cycle.p_before + 1

\* C4: the revisions handed to the webhook over the whole run are strictly
\* increasing (none twice, none after a higher one), and within a batch they
\* are sent oldest first: what was sent in the cycle followed by what is left
\* is the fetched range in ascending order.
C4_DeliveryStrictlyIncreasing ==
    /\ StrictlyIncreasing(sent)
    /\ (pc = "deliver" =>
           /\ StrictlyIncreasing(cycle_sent \o all_logs)
           /\ Range(cycle_sent \o all_logs) = fetched[1]..fetched[2])

C4_Witness ==
    /\ Len(sent) >= 3
    /\ cycle_sent # << >>
    /\ Len(cycle_sent) < Len(sent)
    /\ pc = "sleep"

\* C5: no commit is dropped: unless the run is cancelled, every revision above
\* the seed and up to a HEAD the loop has observed is eventually handed to the
\* webhook (calls do not fail forever: FairSpec).
C5_NoCommitDropped ==
    \A r \in Revisions :
        []((pc \in LoopPcs /\ r > seed /\ (\E h \in observed : r <= h))
              => <>(r \in Range(sent) \/ pc = "shutdown"))

\* C6: a repository contact failure (HEAD query or log fetch) changes nothing
\* but the backoff: the step sends nothing, the cycle has sent nothing, it
\* leaves lastConfirmedRevision, raises the backoff (up to the cap) and goes to
\* Sleeping; the sleep leaves lastConfirmedRevision too, and the fetch of the
\* cycle after a failed one starts at lastConfirmedRevision + 1.
C6_ContactFailureNoPartialChange ==
    /\ [][ContactFailureStep =>
            /\ sent' = sent
            /\ cycle_sent' = << >>
            /\ p_rev' = p_rev
            /\ delay_increment' >= delay_increment
            /\ (delay_increment < MaxDelay => delay_increment' > delay_increment)
            /\ pc' = "sleep"]_vars
    /\ [][(pc = "sleep" /\ pc' = "poll") => p_rev' = p_rev]_vars
    /\ []((hist # << >> /\ fetched # << >>) =>
             (~Last(hist).ok => fetched[1] = cycle.p_before + 1))

C6_Witness ==
    /\ pc = "sleep"
    /\ cycle.outcome = "log_fail"
    /\ c_rev > p_rev
    /\ p_rev = cycle.p_before
    /\ delay_increment > cycle.d_before

\* C7: the backoff is always in [0, 120]; a contact failure sets it to
\* min(old + 15, 120), a successful cycle sets it to 0, no other step changes it.
C7_BackoffBounded ==
    /\ [](delay_increment \in 0..MaxDelay /\ MaxDelay = 120 /\ DelayStep = 15)
    /\ [][IF ContactFailureStep
            THEN delay_increment' = Min(delay_increment + DelayStep, MaxDelay)
            ELSE IF SuccessStep
                   THEN delay_increment' = 0
                   ELSE delay_increment' = delay_increment]_vars

C7_Witness ==
    /\ pc = "sleep"
    /\ cycle.outcome \in FailOutcomes
    /\ cycle.d_before = MaxDelay
    /\ delay_increment = MaxDelay

\* C8: a cycle that runs to its end sleeps exactly once, poll_time plus the
\* backoff that results from its outcome; the third of three consecutive
\* failed cycles that started from backoff 0 ends three strictly increasing
\* sleeps with an added backoff of at most the cap; a successful cycle sleeps
\* exactly poll_time.
C8_SleepUsesOutcomeBackoff ==
    /\ (pc = "poll" => sleeps_in_cycle = (IF hist = << >> THEN 0 ELSE 1))
    /\ (pc \in {"fetch", "deliver", "sleep"} => sleeps_in_cycle = 0)
    /\ ((pc = "poll" /\ hist # << >>) =>
            Last(hist).slept = poll_time + delay_increment)
    /\ \A i \in DOMAIN hist :
            /\ hist[i].ok => hist[i].slept = poll_time
            /\ hist[i].slept - poll_time \in 0..MaxDelay
    /\ (streak = 3 =>
            /\ Len(hist) >= 3
            /\ hist[Len(hist) - 2].slept > poll_time
            /\ hist[Len(hist) - 2].slept < hist[Len(hist) - 1].slept
            /\ hist[Len(hist) - 1].slept < hist[Len(hist)].slept)

C8_Witness ==
    /\ streak = 3
    /\ pc = "sleep"
    /\ cycle.outcome = "delivered"

\* C9: a polled HEAD <= lastConfirmedRevision is an empty delta: no log fetch,
\* nothing sent, backoff 0, a sleep of poll_time; a greater HEAD leads to the
\* fetch of exactly [lastConfirmedRevision + 1, polled HEAD].
C9_EmptyDelta ==
    /\ [][(pc = "poll" /\ last_event' = "head_ok") =>
            IF c_rev' <= p_rev
              THEN /\ cycle'.outcome = "empty"
                   /\ pc' = "sleep"
                   /\ delay_increment' = 0
                   /\ sent' = sent
                   /\ fetched' = << >>
              ELSE pc' = "fetch"]_vars
    /\ [](cycle.outcome = "empty" =>
             fetched = << >> /\ cycle_sent = << >> /\ delay_increment = 0)
    /\ [][(cycle.outcome = "empty" /\ pc = "sleep" /\ pc' = "poll") =>
             Last(hist').slept = poll_time]_vars
    /\ [][(pc = "fetch" /\ fetched' # << >>) =>
             /\ c_rev \in observed
             /\ fetched' = << p_rev + 1, c_rev >>
             /\ Range(all_logs') = (p_rev + 1)..c_rev
             /\ Len(all_logs') = c_rev - p_rev]_vars

C9_Witness ==
    /\ pc = "sleep"
    /\ cycle.outcome = "empty"
    /\ cycle.d_before > 0
    /\ sent # << >>

\* C10: an operator-supplied initial revision R seeds lastConfirmedRevision, and
\* the first fetch of the run is [R + 1, polled HEAD].
C10_SeedIsInitialRevision ==
    \A R \in initial_revision :
        pc \in LoopPcs \cup {"hook"} =>
            /\ seed = R
            /\ ((sent = << >> /\ fetched # << >>) => fetched = << R + 1, c_rev >>)

\* C11: without an initial revision lastConfirmedRevision is seeded with the
\* HEAD observed at startup, and no revision <= that HEAD is ever handed to the
\* webhook.
C11_NoReplayByDefault ==
    (initial_revision = {} /\ pc \notin {"startup"} /\ last_event # "info_fail") =>
        /\ seed = startup_head
        /\ \A i \in DOMAIN sent : sent[i] > startup_head

C11_Witness ==
    /\ initial_revision = {}
    /\ startup_head >= 1
    /\ Len(sent) >= 2
    /\ pc = "sleep"

\* C12: a KeyboardInterrupt inside the loop (Sleeping, Polling or Delivering)
\* ends the loop with exit status 0 and changes neither lastConfirmedRevision
\* nor what was sent; after it nothing is polled, fetched or sent; and
\* lastConfirmedRevision is never past a revision above the seed that was not
\* handed to the webhook.
C12_CancelEndsLoop ==
    /\ [][(last_event' = "interrupt" /\ pc # "shutdown") =>
            /\ pc \in LoopPcs
            /\ pc' = "shutdown"
            /\ exit_code' = {0}
            /\ p_rev' = p_rev
            /\ sent' = sent]_vars
    /\ [][pc = "shutdown" =>
            /\ pc' = "shutdown"
            /\ exit_code' = {0}
            /\ << sent, observed, fetched, c_rev, p_rev, all_logs >>'
                  = << sent, observed, fetched, c_rev, p_rev, all_logs >>]_vars
    /\ [](pc = "shutdown" => \A r \in (seed + 1)..p_rev : r \in Range(sent))

C12_Witness ==
    /\ pc = "shutdown"
    /\ cycle.outcome = "delivered"
    /\ head > c_rev
    /\ exit_code = {0}

\* C13: a failure of the startup HEAD query ends the run with exit status 1, a
\* failure of the initial webhook connection with exit status 2, both before any
\* poll and with nothing sent; exit status 0 comes from cancellation only.
C13_ExitCodes ==
    /\ (last_event = "info_fail" =>
            exit_code = {1} /\ sent = << >> /\ observed = {})
    /\ (last_event = "hook_fail" =>
            exit_code = {2} /\ sent = << >> /\ observed = {})
    /\ (exit_code = {0} => last_event = "interrupt")

\* ---- helpers of the properties of the formatter ----

\* the lines of the block handed to hook.send
OutLines == Split(new_commit_string, NL)

\* the position of the line "Commit message:" in the block
MessageLabelAt == CHOOSE k \in DOMAIN OutLines : OutLines[k] = CommitMessageLabel

\* the lines of the message, without the empty piece after a final newline, each
\* behind 4 spaces
PrefixedMessageLines ==
    LET pieces == Split(log.msg, NL)
        kept == IF Len(pieces) > 1 /\ pieces[Len(pieces)] = << >>
                  THEN SubSeq(pieces, 1, Len(pieces) - 1)
                  ELSE pieces
    IN  [i \in DOMAIN kept |-> << " ", " ", " ", " " >> \o kept[i]]

\* C14: the lines between "Commit message:" and the closing fence are the lines
\* of the message, each behind exactly 4 spaces, with the empty piece of a final
\* newline suppressed: no line of only the prefix, no blank line before the fence.
C14_MessageSection ==
    pc = "fmt_done" =>
        SubSeq(OutLines, MessageLabelAt + 1, Len(OutLines) - 1) = PrefixedMessageLines

\* C15: for an empty changed-path list the line after "Changed paths:" is the
\* separator line.
C15_EmptyChangelist ==
    (pc = "fmt_done" /\ log.changelist = << >>) =>
        /\ OutLines[4] = ChangedPathsLabel
        /\ OutLines[5] # << >>
        /\ OutLines[5] = commit_separator

\* C16: for n >= 1 changed paths the n lines after "Changed paths:" are
\* "<code> | <path>" in the order supplied, the line after them is the
\* separator, and the cut of line 118 took the generated newline only.
C16_ChangedPathsSection ==
    (pc = "fmt_done" /\ Len(log.changelist) >= 1) =>
        /\ OutLines[4] = ChangedPathsLabel
        /\ \A i \in DOMAIN log.changelist :
              OutLines[4 + i] = log.changelist[i][1] \o << " ", "|", " " >>
                                    \o log.changelist[i][2]
        /\ OutLines[4 + Len(log.changelist) + 1] = Repeat("-", Len(OutLines[2]))
        /\ MessageLabelAt = 4 + Len(log.changelist) + 2
        /\ commit_changes \o << NL >> = ChangesLoop(log.changelist)

C16_Witness ==
    /\ pc = "fmt_done"
    /\ Len(log.changelist) = 2
    /\ log.changelist[1] # log.changelist[2]

\* C17: the header ends in "<N> line" or "<N> lines" with N the number of
\* newlines of the message plus 1 ("line" exactly for N = 1, a final newline
\* counted like any other), and both separator lines are "-" repeated as often
\* as the header has characters.
C17_HeaderAndSeparators ==
    pc = "fmt_done" =>
        LET N == Cardinality({i \in DOMAIN log.msg : log.msg[i] = NL}) + 1
            unit == IF N = 1 THEN << "l", "i", "n", "e" >>
                    ELSE << "l", "i", "n", "e", "s" >>
            hdr == << "r" >> \o Dec(log.revision) \o Bar \o log.author \o Bar
                       \o log.cdate \o Bar \o Dec(N) \o << " " >> \o unit
        IN  /\ OutLines[2] = hdr
            /\ OutLines[3] = [i \in 1..Len(hdr) |-> "-"]
            /\ OutLines[MessageLabelAt - 1] = [i \in 1..Len(hdr) |-> "-"]

C17_Witness ==
    /\ pc = "fmt_done"
    /\ Len(log.msg) = 2
    /\ log.msg[2] = NL
    /\ log.msg[1] # NL
    /\ log.revision >= 10

\* C18: commits that arrive between the HEAD query and the log fetch are not
\* delivered early and not lost: the fetch ends at the HEAD polled in this
\* cycle, nothing above the polled HEAD is ever sent, a delivered batch leaves
\* lastConfirmedRevision at the polled HEAD, and every revision above the seed
\* that lastConfirmedRevision has passed was sent exactly once.
C18_RaceWithCommit ==
    /\ (fetched # << >> => fetched[2] = c_rev /\ observed = {c_rev})
    /\ \A i \in DOMAIN sent : sent[i] <= c_rev
    /\ ((pc = "sleep" /\ cycle.outcome = "delivered") => p_rev = c_rev)
    /\ \A r \in (seed + 1)..p_rev :
           Cardinality({i \in DOMAIN sent : sent[i] = r}) = 1
    /\ \A r \in Range(sent) :
           Cardinality({i \in DOMAIN sent : sent[i] = r}) = 1

C18_Witness ==
    /\ raced
    /\ pc = "sleep"
    /\ cycle.outcome = "delivered"
    /\ sent # << >>
    /\ Len(cycle_sent) < Len(sent)
    /\ head > c_rev

\* C19: when a cycle has ended in the else branch, lastConfirmedRevision is the
\* HEAD polled in that cycle (empty delta or delivered batch); when it has
\* ended in the except branch, lastConfirmedRevision is what it was before the
\* cycle, whatever c_rev holds; the sleep changes neither.
C19_ConfirmedAfterCycle ==
    /\ []((pc = "sleep" /\ cycle.outcome \in OkOutcomes) =>
             p_rev = c_rev /\ observed = {c_rev})
    /\ []((pc = "sleep" /\ cycle.outcome \in FailOutcomes) =>
             p_rev = cycle.p_before)
    /\ [][(pc = "sleep" /\ pc' = "poll") =>
             p_rev' = p_rev /\ c_rev' = c_rev]_vars

C19_Witness ==
    /\ pc = "sleep"
    /\ cycle.outcome = "log_fail"
    /\ c_rev > p_rev
    /\ hist # << >>
    /\ sent # << >>

====
